---- MODULE Spec2Model ----
(***************************************************************************)
(* Model of the complaint-monitoring backend: the PostgreSQL layer         *)
(* (database.js), the cron scheduler (scheduler.js, second half of         *)
(* src/backend/src/database.js), the HTTP routes (server.js,               *)
(* src/unnamed/part_000) and the scraper (scraper.js,                      *)
(* src/unnamed/part_001).                                                  *)
(***************************************************************************)
EXTENDS Integers, Sequences, FiniteSets, Bags, TLC

\* ------------------------------------------------------------------------
\* Bounds of the model
\* ------------------------------------------------------------------------
MaxLinhas == 3
MaxLote == 2
MaxLimite == 2
MaxEnchimento == 19
MaxCauda == 2

\* ------------------------------------------------------------------------
\* Values
\* ------------------------------------------------------------------------
\* JavaScript null / SQL NULL for the external identifier.
NULO == "<null>"
Empresas == {"e1", "e2"}
IdsExternos == {"a", "b"}
Ids == IdsExternos \cup {NULO}
\* titulo stands for the text columns the INSERT copies verbatim
\* (titulo, descricao, status, data, local, link).
Titulos == {"t1", "t2"}
Tempos == {1, 2}

\* A complaint record as the scraper produces it and salvarReclamacoesDB reads it.
Registros == [id : Ids, empresa : Empresas, titulo : Titulos, coletadoEm : Tempos]

RECURSIVE SeqsAte(_, _)
SeqsAte(S, n) ==
  IF n = 0 THEN {<<>>}
  ELSE LET menores == SeqsAte(S, n - 1)
       IN menores \cup {Append(s, x) : s \in {t \in menores : Len(t) = n - 1}, x \in S}

\* The batches the only caller (executarMonitoramento) passes: the records of one
\* fetch, all of the same empresa.
mesmaEmpresa(lote) == \A i, j \in DOMAIN lote : lote[i].empresa = lote[j].empresa

\* Batches of the store specification: records that differ in identifier and
\* empresa.
LotesDB ==
  {lote \in SeqsAte({r \in Registros : r.titulo = "t1" /\ r.coletadoEm = 1}, MaxLote) :
     mesmaEmpresa(lote)}

\* Batches of the query specification: records without identifier (each one
\* becomes a row) that differ in empresa and collection time.
LotesConsulta ==
  {lote \in SeqsAte({r \in Registros : r.titulo = "t1" /\ r.id = NULO}, MaxLote) :
     mesmaEmpresa(lote)}

\* Outcome of one client.query / pool.connect: success or a storage error that is
\* not a unique violation (connection lost, server shutting down).
OK == "ok"
ERRO == "08006"
Desfechos == {OK, ERRO}

VARIABLES
  reclamacoes,   \* table reclamacoes: sequence of rows, index = insertion order
  ultima,        \* the last call made on the store and what it returned
  configuracoes, \* table configuracoes: sequence of rows, in order of creation
  jobsAtivos,    \* the Map jobsAtivos: empresa -> [job, intervalo]
  tarefas,       \* the tasks node-cron holds armed: a bag of [empresa, expressao]
  ciclos,        \* the executarMonitoramento calls in flight: a bag of cycles
  pedidos,       \* the POST /iniciar requests in flight: a bag of requests
  resposta,      \* the HTTP response the last step sent, if it sent one
  evento,        \* what the last step did to a cycle: launched it, ended it, logged its failure
  vivo           \* FALSE once process.exit has run

vars == <<reclamacoes, ultima, configuracoes, jobsAtivos, tarefas, ciclos,
          pedidos, resposta, evento, vivo>>

agendador ==
  <<configuracoes, jobsAtivos, tarefas, ciclos, pedidos, resposta, evento, vivo>>

\* ------------------------------------------------------------------------
\* Table reclamacoes
\* ------------------------------------------------------------------------
\* The row the INSERT builds from a record: columns $1..$9 and the SERIAL id.
Linha(tabela, r) ==
  [id |-> Len(tabela) + 1,
   id_externo |-> r.id,
   empresa |-> r.empresa,
   titulo |-> r.titulo,
   coletado_em |-> r.coletadoEm]

\* Mutants of conflita: a table without the UNIQUE constraint, and a constraint
\* that compares NULLs as equal.
conflitaSemUnique(tabela, r) == FALSE

conflitaNulosIguais(tabela, r) ==
  \E i \in DOMAIN tabela :
    /\ tabela[i].id_externo = r.id
    /\ tabela[i].empresa = r.empresa

\* UNIQUE(id_externo, empresa): two rows conflict when both columns are equal;
\* SQL NULLs are never equal, so a NULL id_externo conflicts with nothing.

conflita(tabela, r) ==
  /\ r.id # NULO
  /\ \E i \in DOMAIN tabela :
       /\ tabela[i].id_externo = r.id
       /\ tabela[i].empresa = r.empresa

\* Mutant of inserir: ON CONFLICT (id_externo, empresa) DO UPDATE SET the
\* columns of the record.
inserirSobrescrevendo(tabela, r) ==
  IF conflita(tabela, r)
    THEN [i \in DOMAIN tabela |->
            IF tabela[i].id_externo = r.id /\ tabela[i].empresa = r.empresa
              THEN [tabela[i] EXCEPT !.titulo = r.titulo, !.coletado_em = r.coletadoEm]
              ELSE tabela[i]]
    ELSE Append(tabela, Linha(tabela, r))

\* INSERT ... ON CONFLICT (id_externo, empresa) DO NOTHING
inserir(tabela, r) ==
  IF conflita(tabela, r) THEN tabela ELSE Append(tabela, Linha(tabela, r))

\* One iteration of the for loop of salvarReclamacoesDB on the running state
\* st = [tabela, salvos, duplicados]: d is what the query does (OK: it ran;
\* otherwise the error code it threw).
passoSalvar(st, r, d) ==
  IF d = OK
    THEN [st EXCEPT !.tabela = inserir(st.tabela, r), !.salvos = st.salvos + 1]
    ELSE IF d = "23505"
      THEN [st EXCEPT !.duplicados = st.duplicados + 1]
      ELSE st

RECURSIVE lacoSalvar(_, _, _, _)
lacoSalvar(st, lote, ds, i) ==
  IF i > Len(lote) THEN st
  ELSE lacoSalvar(passoSalvar(st, lote[i], ds[i]), lote, ds, i + 1)

semFalha(ds) == \A i \in DOMAIN ds : ds[i] = OK

\* The error a call threw: its message and the status it carries, if any.
SemFalha == [mensagem |-> "", status |-> 0]

SemChamada ==
  [antes |-> <<>>, duplicados |-> 0, empresa |-> "", erro |-> FALSE,
   falha |-> SemFalha, intervalo |-> "",
   limite |-> 0, limpa |-> FALSE, linhas |-> <<>>, lote |-> <<>>,
   op |-> "nenhuma", pagina |-> <<>>, repetida |-> FALSE, salvos |-> 0,
   upstream |-> [status |-> 0, tipo |-> ""]]

\* salvarReclamacoesDB(lote) as one call that runs to its end: con is the
\* outcome of pool.connect(), ds[i] the outcome of the i-th INSERT.
salvarReclamacoesDB(lote, con, ds) ==
  /\ UNCHANGED agendador
  /\ LET st0 == [tabela |-> reclamacoes, salvos |-> 0, duplicados |-> 0]
         st == IF con = OK THEN lacoSalvar(st0, lote, ds, 1) ELSE st0
         limpa == con = OK /\ semFalha(ds)
     IN /\ Len(st.tabela) <= MaxLinhas
        /\ reclamacoes' = st.tabela
        /\ ultima' = [SemChamada EXCEPT
              !.op = "salvar", !.lote = lote,
              !.salvos = st.salvos, !.duplicados = st.duplicados,
              !.erro = (con # OK), !.limpa = limpa,
              !.repetida = (ultima.op = "salvar" /\ ultima.limpa /\ limpa
                            /\ ultima.lote = lote)]

\* ------------------------------------------------------------------------
\* buscarReclamacoesDB
\* ------------------------------------------------------------------------
\* Mutant of ordemDesc: ORDER BY coletado_em ASC.
ordemAsc(x, y) == x.coletado_em <= y.coletado_em

\* ORDER BY coletado_em DESC

ordemDesc(x, y) == x.coletado_em >= y.coletado_em

\* Mutant of filtro: the SELECT without its WHERE clause.
filtroSemWhere(tabela, empresa) == DOMAIN tabela

\* WHERE empresa = $1

filtro(tabela, empresa) == {i \in DOMAIN tabela : tabela[i].empresa = empresa}

\* The orders in which the database may return the selected rows: every
\* arrangement of them that respects the ORDER BY (rows with equal keys come
\* in any order).
ordenacoes(tabela, S) ==
  {s \in [1..Cardinality(S) -> S] :
     /\ \A i, j \in DOMAIN s : i # j => s[i] # s[j]
     /\ \A i, j \in DOMAIN s : i < j => ordemDesc(tabela[s[i]], tabela[s[j]])}

\* LIMIT $2
limitar(s, n) == SubSeq(s, 1, IF n < Len(s) THEN n ELSE Len(s))

\* buscarReclamacoesDB(empresa, limite): a negative LIMIT is an SQL error,
\* which the function logs and rethrows.
buscarReclamacoesDB(empresa, limite) ==
  /\ UNCHANGED agendador
  /\ reclamacoes' = reclamacoes
  /\ IF limite < 0
       THEN ultima' = [SemChamada EXCEPT !.op = "buscar", !.empresa = empresa,
                          !.limite = limite, !.erro = TRUE]
       ELSE \E s \in ordenacoes(reclamacoes, filtro(reclamacoes, empresa)) :
              ultima' = [SemChamada EXCEPT !.op = "buscar", !.empresa = empresa,
                           !.limite = limite,
                           !.linhas = [k \in DOMAIN limitar(s, limite) |->
                                          reclamacoes[limitar(s, limite)[k]]]]

\* parseInt on the query strings of the model; NaN is the result for a string
\* that does not start with a number.
NaN == -999
QueryLimites == {"", "abc", "0", "1", "2", "-1"}
parseInt(q) ==
  CASE q = "0" -> 0
    [] q = "1" -> 1
    [] q = "2" -> 2
    [] q = "-1" -> -1
    [] OTHER -> NaN

LIMITE_PADRAO == 50

\* GET /api/reclamacoes/:empresa : parseInt(req.query.limite) || 50
getReclamacoes(empresa, q) ==
  LET n == parseInt(q)
  IN buscarReclamacoesDB(empresa, IF n = NaN \/ n = 0 THEN LIMITE_PADRAO ELSE n)

\* ------------------------------------------------------------------------
\* Interval tokens and cron expressions
\* ------------------------------------------------------------------------
\* The JSON number 5 sent as intervalo: truthy, and not a string.
NUMERO == "#5"
ehString(v) == v # NUMERO

\* String.prototype.toLowerCase on the tokens of the model.
toLowerCase(t) == IF t = "1H" THEN "1h" ELSE t

\* The object literal conversoes.
conversoes ==
  [t \in {"10min", "30min", "1h", "3h", "6h", "12h", "diario", "1d", "semanal", "1w"} |->
     CASE t = "10min" -> "*/10 * * * *"
       [] t = "30min" -> "*/30 * * * *"
       [] t = "1h" -> "0 * * * *"
       [] t = "3h" -> "0 */3 * * *"
       [] t = "6h" -> "0 */6 * * *"
       [] t = "12h" -> "0 */12 * * *"
       [] t = "diario" -> "0 9 * * *"
       [] t = "1d" -> "0 9 * * *"
       [] t = "semanal" -> "0 9 * * 1"
       [] t = "1w" -> "0 9 * * 1"]

\* conversoes[chave]: an own property, a property inherited from
\* Object.prototype (a function or an object, truthy), or undefined.
UNDEFINED == "<undefined>"
HERDADA == "<Object.prototype member>"
Herdadas == {"constructor", "__proto__"}
propriedade(chave) ==
  IF chave \in DOMAIN conversoes THEN conversoes[chave]
  ELSE IF chave \in Herdadas THEN HERDADA
  ELSE UNDEFINED

\* Mutant of intervalParaCron: the fallback is another entry of the table.
intervalParaCronOutroPadrao(intervalo) ==
  LET v == propriedade(toLowerCase(intervalo))
  IN IF v # UNDEFINED THEN v ELSE conversoes["30min"]

\* intervalParaCron(intervalo), for a string: conversoes[...] || conversoes['1h']
intervalParaCron(intervalo) ==
  LET v == propriedade(toLowerCase(intervalo))
  IN IF v # UNDEFINED THEN v ELSE conversoes["1h"]

\* cron.schedule validates its pattern and throws on anything but a cron string.
expressaoValida(x) == \E t \in DOMAIN conversoes : conversoes[t] = x

\* ------------------------------------------------------------------------
\* Table configuracoes
\* ------------------------------------------------------------------------
\* The text PostgreSQL stores in the VARCHAR column intervalo.
paraTexto(v) == IF v = NUMERO THEN "5" ELSE v

temLinha(tabela, empresa) == \E i \in DOMAIN tabela : tabela[i].empresa = empresa

\* Mutant of upsertConfiguracao: a table without UNIQUE on empresa, so that
\* the INSERT never conflicts.
upsertSemUnique(tabela, empresa, intervalo) ==
  Append(tabela, [empresa |-> empresa, intervalo |-> paraTexto(intervalo),
                  ativo |-> TRUE])

\* INSERT INTO configuracoes ... ON CONFLICT (empresa) DO UPDATE SET
\* intervalo = $2, ativo = true
upsertConfiguracao(tabela, empresa, intervalo) ==
  IF temLinha(tabela, empresa)
    THEN [i \in DOMAIN tabela |->
            IF tabela[i].empresa = empresa
              THEN [tabela[i] EXCEPT !.intervalo = paraTexto(intervalo), !.ativo = TRUE]
              ELSE tabela[i]]
    ELSE Append(tabela, [empresa |-> empresa, intervalo |-> paraTexto(intervalo),
                         ativo |-> TRUE])

inverter(s) == [i \in DOMAIN s |-> s[Len(s) + 1 - i]]

\* obterConfiguracoes(apenasAtivos): SELECT * FROM configuracoes
\* [WHERE ativo = true] ORDER BY criado_em DESC
obterConfiguracoes(tabela, apenasAtivos) ==
  inverter(SelectSeq(tabela, LAMBDA l : ~apenasAtivos \/ l.ativo))

\* ------------------------------------------------------------------------
\* Scraper: the records of one page
\* ------------------------------------------------------------------------
MAX_RECLAMACOES == 20

primeiros(s, n) == SubSeq(s, 1, IF n < Len(s) THEN n ELSE Len(s))

\* Mutant of extrair: the loop without its if (titulo).
extrairSemFiltro(cards, nomeEmpresa, agora) ==
  LET vistos == primeiros(cards, MAX_RECLAMACOES)
  IN [k \in DOMAIN vistos |->
        [id |-> vistos[k].id, empresa |-> nomeEmpresa,
         titulo |-> vistos[k].titulo, coletadoEm |-> agora]]

\* The .each loop of buscarReclamacoes over the cards of the page: a card is
\* [titulo, id], titulo already trimmed, id the last segment of the href or null.
extrair(cards, nomeEmpresa, agora) ==
  LET vistos == primeiros(cards, MAX_RECLAMACOES)
      comTitulo == SelectSeq(vistos, LAMBDA c : c.titulo # "")
  IN [k \in DOMAIN comTitulo |->
        [id |-> comTitulo[k].id, empresa |-> nomeEmpresa,
         titulo |-> comTitulo[k].titulo, coletadoEm |-> agora]]

\* What axios.get does: it resolves on a 2xx response, rejects with
\* erro.response on any other status, with erro.request alone when no response
\* came (timeout, connection refused), with neither when the request could not
\* be set up.
Upstreams ==
  {[status |-> st, tipo |-> "resposta"] : st \in {200, 404, 403, 500}}
    \cup {[status |-> 0, tipo |-> "semResposta"], [status |-> 0, tipo |-> "outro"]}

sucesso(up) == up.tipo = "resposta" /\ up.status = 200

NAO_ENCONTRADA == "Empresa não encontrada no Reclame Aqui"
BLOQUEADO == "Acesso bloqueado pelo Reclame Aqui"
SEM_RESPOSTA == "Sem resposta do servidor"
ORIGINAL == "<erro.message>"

\* Mutant of erroLancado: the catch without the test of status 403.
erroLancadoSem403(up) ==
  IF up.tipo = "resposta"
    THEN IF up.status = 404 THEN [mensagem |-> NAO_ENCONTRADA, status |-> 0]
         ELSE [mensagem |-> ORIGINAL, status |-> up.status]
    ELSE IF up.tipo = "semResposta" THEN [mensagem |-> SEM_RESPOSTA, status |-> 0]
    ELSE [mensagem |-> ORIGINAL, status |-> 0]

\* The catch of buscarReclamacoes: the error it throws for a rejected request;
\* the original error carries erro.response.status when there was a response.
erroLancado(up) ==
  IF up.tipo = "resposta"
    THEN IF up.status = 404 THEN [mensagem |-> NAO_ENCONTRADA, status |-> 0]
         ELSE IF up.status = 403 THEN [mensagem |-> BLOQUEADO, status |-> 0]
         ELSE [mensagem |-> ORIGINAL, status |-> up.status]
    ELSE IF up.tipo = "semResposta" THEN [mensagem |-> SEM_RESPOSTA, status |-> 0]
    ELSE [mensagem |-> ORIGINAL, status |-> 0]

\* buscarReclamacoes(nomeEmpresa): up is what the page request does, pagina the
\* cards of the page when it succeeds.
buscarReclamacoes(nomeEmpresa, up, pagina) ==
  /\ UNCHANGED agendador
  /\ UNCHANGED reclamacoes
  /\ ultima' =
       IF sucesso(up)
         THEN [SemChamada EXCEPT !.op = "fetch", !.empresa = nomeEmpresa,
                 !.upstream = up, !.pagina = pagina,
                 !.lote = extrair(pagina, nomeEmpresa, 1)]
         ELSE [SemChamada EXCEPT !.op = "fetch", !.empresa = nomeEmpresa,
                 !.upstream = up, !.erro = TRUE, !.falha = erroLancado(up)]

\* ------------------------------------------------------------------------
\* Scheduler: jobsAtivos, the armed cron tasks, the cycles in flight
\* ------------------------------------------------------------------------
MaxTarefas == 3
MaxCiclos == 1
MaxPedidos == 1
MaxSobrepostos == 2
MaxConcorrentes == 2

Vazio == [x \in {} |-> 0]

semChave(f, k) == [x \in DOMAIN f \ {k} |-> f[x]]

comChave(f, k, v) == [x \in DOMAIN f \cup {k} |-> IF x = k THEN v ELSE f[x]]

um(x) == SetToBag({x})

\* Mutant of pararMonitoramento: the entry is deleted and job.stop() is not called.
pararMonitoramentoSemStop(jobs, tf, empresa) ==
  IF empresa \in DOMAIN jobs
    THEN [jobs |-> semChave(jobs, empresa), tarefas |-> tf, achou |-> TRUE]
    ELSE [jobs |-> jobs, tarefas |-> tf, achou |-> FALSE]

\* Mutant of pararMonitoramento: job.stop() without jobsAtivos.delete(empresa).
pararMonitoramentoSemDelete(jobs, tf, empresa) ==
  IF empresa \in DOMAIN jobs
    THEN [jobs |-> jobs, tarefas |-> tf (-) um(jobs[empresa].job), achou |-> TRUE]
    ELSE [jobs |-> jobs, tarefas |-> tf, achou |-> FALSE]

\* pararMonitoramento(empresa) on the Map (jobs) and on the bag of armed tasks
\* (tf): job.stop() disarms the task of the entry; achou is the value returned.
pararMonitoramento(jobs, tf, empresa) ==
  IF empresa \in DOMAIN jobs
    THEN [jobs |-> semChave(jobs, empresa),
          tarefas |-> tf (-) um(jobs[empresa].job),
          achou |-> TRUE]
    ELSE [jobs |-> jobs, tarefas |-> tf, achou |-> FALSE]

\* Mutant of pararAnterior: iniciarMonitoramento without its first statement.
semPararAnterior(jobs, tf, empresa) == [jobs |-> jobs, tarefas |-> tf, achou |-> FALSE]

\* The first statement of iniciarMonitoramento: pararMonitoramento(empresa).
pararAnterior(jobs, tf, empresa) == pararMonitoramento(jobs, tf, empresa)

\* executarMonitoramento(empresa) up to its first await: the page request of
\* buscarReclamacoes is sent.
novoCiclo(empresa) ==
  [empresa |-> empresa, pc |-> "buscando", lote |-> <<>>, i |-> 0,
   salvos |-> 0, duplicados |-> 0]

\* What a step does to a cycle of empresa: executarMonitoramento is called by
\* iniciarMonitoramento ("imediato") or by the callback of an armed task
\* ("cron"), a failure is caught and logged ("erro"), the cycle returns ("fim").
SemEvento == [empresa |-> "", tipo |-> "nenhum"]

eventoDe(empresa, tipo) == [empresa |-> empresa, tipo |-> tipo]

\* Mutant of cicloCaptura: executarMonitoramento without its try/catch.
cicloSemCatch(falha) == FALSE

\* The try/catch of executarMonitoramento: whatever buscarReclamacoes or
\* salvarReclamacoesDB throws is caught and logged, so the promise of the cycle
\* never rejects and the process goes on.
cicloCaptura(falha) == TRUE

\* cron.schedule(expressaoCron, callback, {scheduled: true}): the armed task.
novaTarefa(empresa, expressaoCron) == [empresa |-> empresa, expressao |-> expressaoCron]

\* Mutant of iniciarMonitoramento: the task is scheduled and set without the
\* call executarMonitoramento(empresa) before it.
iniciarMonitoramentoSemImediato(jobs, tf, cs, empresa, intervalo) ==
  LET p == pararAnterior(jobs, tf, empresa)
  IN IF ~ehString(intervalo) \/ ~expressaoValida(intervalParaCron(intervalo))
       THEN [jobs |-> p.jobs, tarefas |-> p.tarefas, ciclos |-> cs,
             lancou |-> FALSE, erro |-> TRUE]
       ELSE LET job == novaTarefa(empresa, intervalParaCron(intervalo))
            IN [jobs |-> comChave(p.jobs, empresa,
                                  [job |-> job, intervalo |-> intervalo]),
                tarefas |-> p.tarefas (+) um(job),
                ciclos |-> cs,
                lancou |-> FALSE, erro |-> FALSE]

\* iniciarMonitoramento(empresa, intervalo): the Map, the armed tasks and the
\* cycles in flight when it returns (erro = FALSE) or throws (erro = TRUE);
\* lancou tells whether executarMonitoramento(empresa) was called.
iniciarMonitoramento(jobs, tf, cs, empresa, intervalo) ==
  LET p == pararAnterior(jobs, tf, empresa)
  IN IF ~ehString(intervalo)
       \* intervalo.toLowerCase is not a function
       THEN [jobs |-> p.jobs, tarefas |-> p.tarefas, ciclos |-> cs,
             lancou |-> FALSE, erro |-> TRUE]
       ELSE LET expressaoCron == intervalParaCron(intervalo)
                cs1 == cs (+) um(novoCiclo(empresa))
                job == novaTarefa(empresa, expressaoCron)
            IN IF ~expressaoValida(expressaoCron)
                 THEN [jobs |-> p.jobs, tarefas |-> p.tarefas, ciclos |-> cs1,
                       lancou |-> TRUE, erro |-> TRUE]
                 ELSE [jobs |-> comChave(p.jobs, empresa,
                                         [job |-> job, intervalo |-> intervalo]),
                       tarefas |-> p.tarefas (+) um(job),
                       ciclos |-> cs1,
                       lancou |-> TRUE, erro |-> FALSE]

\* Mutant of pararTodos: jobsAtivos.clear() without the job.stop() calls.
pararTodosSemStop(jobs, tf) == [jobs |-> Vazio, tarefas |-> tf]

\* pararTodos(): job.stop() for every entry, then jobsAtivos.clear()
pararTodos(jobs, tf) ==
  [jobs |-> Vazio,
   tarefas |-> tf (-) SetToBag({jobs[e].job : e \in DOMAIN jobs})]

\* listarMonitoramentos(): the entries of the Map
listarMonitoramentos(jobs) ==
  {[empresa |-> e, intervalo |-> jobs[e].intervalo, ativo |-> TRUE] : e \in DOMAIN jobs}

\* ------------------------------------------------------------------------
\* HTTP routes
\* ------------------------------------------------------------------------
\* The response a step sends, SemResposta when it sends none.
SemResposta ==
  [corpo |-> <<>>, detalhes |-> "", empresa |-> "", intervalo |-> "",
   parou |-> FALSE, rota |-> "nenhuma", status |-> 0]

\* parou is what pararMonitoramento returned, and logged, while the route ran.
responder(rota, status, empresa, intervalo, detalhes, corpo) ==
  [rota |-> rota, status |-> status, empresa |-> empresa, intervalo |-> intervalo,
   detalhes |-> detalhes, corpo |-> corpo, parou |-> FALSE]

comParou(r, parou) == [r EXCEPT !.parou = parou]

\* Mutant of camposFaltando: only empresa is validated.
camposFaltandoSoEmpresa(empresa, intervalo) == empresa = ""

\* if (!empresa || !intervalo): "" stands for a missing or empty field.
camposFaltando(empresa, intervalo) == empresa = "" \/ intervalo = ""

\* POST /api/monitoramento/iniciar, up to the await of salvarConfiguracao; ""
\* stands for a missing or empty field of the body.
postIniciarAte(empresa, intervalo, n) ==
  /\ vivo
  /\ IF camposFaltando(empresa, intervalo)
       THEN /\ resposta' = responder("iniciar", 400, empresa, intervalo,
                                     "Empresa e intervalo são obrigatórios", <<>>)
            /\ UNCHANGED pedidos
       ELSE /\ BagCardinality(pedidos) < n
            /\ pedidos' = pedidos (+) um([empresa |-> empresa, intervalo |-> intervalo,
                                          pc |-> "salvando", gravou |-> FALSE,
                                          parado |-> FALSE])
            /\ resposta' = SemResposta
  /\ evento' = SemEvento
  /\ UNCHANGED <<reclamacoes, ultima, configuracoes, jobsAtivos, tarefas, ciclos, vivo>>

postIniciar(empresa, intervalo) == postIniciarAte(empresa, intervalo, MaxPedidos)

\* Mutant of aposSalvar: a salvarConfiguracao whose catch does not rethrow.
aposSalvarSemThrow(d) == "salvo"

\* Where the route stands when salvarConfiguracao settles: the promise
\* resolves and the handler goes on, or it rejects and the catch answers.
aposSalvar(d) == IF d = OK THEN "salvo" ELSE "falhou"

\* salvarConfiguracao(empresa, intervalo) settles for the waiting request p:
\* d is the outcome of its connect and query. gravou records that the row of
\* the request was written.
salvarConfiguracao(p, d) ==
  /\ vivo
  /\ BagIn(p, pedidos)
  /\ p.pc = "salvando"
  /\ configuracoes' =
       IF d = OK THEN upsertConfiguracao(configuracoes, p.empresa, p.intervalo)
       ELSE configuracoes
  /\ IF aposSalvar(d) = "salvo"
       THEN /\ pedidos' = (pedidos (-) um(p))
                            (+) um([p EXCEPT !.pc = "salvo", !.gravou = (d = OK)])
            /\ resposta' = SemResposta
       ELSE /\ pedidos' = pedidos (-) um(p)
            /\ resposta' = responder("iniciar", 500, p.empresa, p.intervalo, d, <<>>)
  /\ evento' = SemEvento
  /\ UNCHANGED <<reclamacoes, ultima, jobsAtivos, tarefas, ciclos, vivo>>

\* POST /api/monitoramento/iniciar after the await: iniciarMonitoramento and
\* the answer, 500 with the message of the error when it throws.
continuarIniciarAte(p, n) ==
  /\ vivo
  /\ BagIn(p, pedidos)
  /\ p.pc = "salvo"
  /\ BagCardinality(ciclos) < n
  /\ BagCardinality(tarefas) < MaxTarefas
  /\ LET r == iniciarMonitoramento(jobsAtivos, tarefas, ciclos, p.empresa, p.intervalo)
         parou == pararAnterior(jobsAtivos, tarefas, p.empresa).achou
     IN /\ jobsAtivos' = r.jobs
        /\ tarefas' = r.tarefas
        /\ ciclos' = r.ciclos
        /\ evento' = IF r.lancou THEN eventoDe(p.empresa, "imediato") ELSE SemEvento
        /\ resposta' = comParou(IF r.erro
                                    THEN responder("iniciar", 500, p.empresa,
                                                   p.intervalo, "TypeError", <<>>)
                                    ELSE responder("iniciar", 200, p.empresa,
                                                   p.intervalo, "", <<>>),
                                  parou)
  /\ pedidos' = pedidos (-) um(p)
  /\ UNCHANGED <<reclamacoes, ultima, configuracoes, vivo>>

continuarIniciar(p) == continuarIniciarAte(p, MaxCiclos)

\* desativarMonitoramento(empresa): UPDATE configuracoes SET ativo = false
\* WHERE empresa = $1
desativarMonitoramento(tabela, empresa) ==
  [i \in DOMAIN tabela |->
     IF tabela[i].empresa = empresa THEN [tabela[i] EXCEPT !.ativo = FALSE]
     ELSE tabela[i]]

\* Mutant of configuracoesAposParar: the route also calls desativarMonitoramento.
pararDesativando(tabela, empresa) == desativarMonitoramento(tabela, empresa)

\* The table configuracoes when POST /api/monitoramento/parar has answered:
\* the route calls pararMonitoramento(empresa) and nothing of the database.
configuracoesAposParar(tabela, empresa) == tabela

\* The requests waiting in POST /api/monitoramento/iniciar, those of empresa
\* marked: a stop of empresa was answered while they waited.
marcarPedidos(ps, empresa) ==
  LET marcado(p) == IF p.empresa = empresa THEN [p EXCEPT !.parado = TRUE] ELSE p
      alvo == {marcado(p) : p \in BagToSet(ps)}
  IN [q \in alvo |->
        CopiesIn(q, ps)
          + (IF q.parado /\ q.empresa = empresa
               THEN CopiesIn([q EXCEPT !.parado = FALSE], ps) ELSE 0)]

\* POST /api/monitoramento/parar; with marca, the requests of empresa that
\* wait in POST /api/monitoramento/iniciar are marked (history, read by no
\* handler).
postPararCom(empresa, marca) ==
  /\ vivo
  /\ IF empresa = ""
       THEN /\ resposta' = responder("parar", 400, empresa, "",
                                     "Nome da empresa é obrigatório", <<>>)
            /\ UNCHANGED <<jobsAtivos, tarefas>>
       ELSE LET p == pararMonitoramento(jobsAtivos, tarefas, empresa)
            IN /\ jobsAtivos' = p.jobs
               /\ tarefas' = p.tarefas
               /\ resposta' = comParou(responder("parar", 200, empresa, "", "", <<>>),
                                        p.achou)
  /\ configuracoes' = IF empresa = "" THEN configuracoes
                       ELSE configuracoesAposParar(configuracoes, empresa)
  /\ pedidos' = IF marca /\ empresa # "" THEN marcarPedidos(pedidos, empresa)
               ELSE pedidos
  /\ evento' = SemEvento
  /\ UNCHANGED <<reclamacoes, ultima, ciclos, vivo>>

postParar(empresa) == postPararCom(empresa, FALSE)

\* Mutant of fonteDaLista: the list read from the Map jobsAtivos
\* (listarMonitoramentos) instead of the table.
fonteDaListaRegistro(tabela, jobs) ==
  LET es == listarMonitoramentos(jobs)
      ordem == CHOOSE s \in [1..Cardinality(es) -> es] :
                 \A i, j \in DOMAIN s : i # j => s[i] # s[j]
  IN [k \in 1..Cardinality(es) |-> ordem[k]]

\* What GET /api/monitoramento/lista answers with: await obterConfiguracoes()
fonteDaLista(tabela, jobs) == obterConfiguracoes(tabela, TRUE)

\* GET /api/monitoramento/lista: d is the outcome of the query.
getLista(d) ==
  /\ vivo
  /\ resposta' = IF d = OK
                   THEN responder("lista", 200, "", "", "",
                                  fonteDaLista(configuracoes, jobsAtivos))
                   ELSE responder("lista", 500, "", "", d, <<>>)
  /\ evento' = SemEvento
  /\ UNCHANGED <<reclamacoes, ultima, configuracoes, jobsAtivos, tarefas, ciclos,
                 pedidos, vivo>>

\* ------------------------------------------------------------------------
\* Cron firings and the steps of a cycle
\* ------------------------------------------------------------------------
\* The callback of an armed task runs: executarMonitoramento(empresa).
disparoAte(job, n) ==
  /\ vivo
  /\ BagIn(job, tarefas)
  /\ BagCardinality(ciclos) < n
  /\ ciclos' = ciclos (+) um(novoCiclo(job.empresa))
  /\ evento' = eventoDe(job.empresa, "cron")
  /\ resposta' = SemResposta
  /\ UNCHANGED <<reclamacoes, ultima, configuracoes, jobsAtivos, tarefas, pedidos, vivo>>

disparo(job) == disparoAte(job, MaxCiclos)

\* Upstream outcomes of the page request of buscarReclamacoes that make it throw.
FalhasDeBusca == {"404", "403", "sem resposta", "500"}

cartao(titulo, id) == [id |-> id, titulo |-> titulo]

\* await buscarReclamacoes(empresa) throws: the catch of executarMonitoramento
\* logs the error and the cycle ends.
buscaFalha(c, falha) ==
  /\ vivo
  /\ BagIn(c, ciclos)
  /\ c.pc = "buscando"
  /\ falha \in FalhasDeBusca
  /\ ciclos' = ciclos (-) um(c)
  /\ evento' = eventoDe(c.empresa, "erro")
  /\ vivo' = cicloCaptura(falha)
  /\ resposta' = SemResposta
  /\ UNCHANGED <<reclamacoes, ultima, configuracoes, jobsAtivos, tarefas, pedidos>>

\* await buscarReclamacoes(empresa) returns the records of the page: none and
\* the cycle ends; otherwise salvarReclamacoesDB is called and connects (con),
\* and a failed connect is thrown into the catch of executarMonitoramento.
buscaRetorna(c, pagina, con) ==
  /\ vivo
  /\ BagIn(c, ciclos)
  /\ c.pc = "buscando"
  /\ LET lote == extrair(pagina, c.empresa, 1)
     IN IF Len(lote) = 0
          THEN /\ ciclos' = ciclos (-) um(c)
               /\ evento' = eventoDe(c.empresa, "fim")
               /\ UNCHANGED vivo
          ELSE IF con # OK
            THEN /\ ciclos' = ciclos (-) um(c)
                 /\ evento' = eventoDe(c.empresa, "erro")
                 /\ vivo' = cicloCaptura(con)
            ELSE /\ ciclos' = (ciclos (-) um(c))
                      (+) um([c EXCEPT !.pc = "salvando", !.lote = lote, !.i = 1])
                 /\ evento' = SemEvento
                 /\ UNCHANGED vivo
  /\ resposta' = SemResposta
  /\ UNCHANGED <<reclamacoes, ultima, configuracoes, jobsAtivos, tarefas, pedidos>>

\* One iteration of the loop of salvarReclamacoesDB inside cycle c; after the
\* last one the call returns and the cycle ends.
insereCiclo(c, d) ==
  /\ vivo
  /\ BagIn(c, ciclos)
  /\ c.pc = "salvando"
  /\ LET st == passoSalvar([tabela |-> reclamacoes, salvos |-> c.salvos,
                            duplicados |-> c.duplicados], c.lote[c.i], d)
     IN /\ reclamacoes' = st.tabela
        /\ ciclos' = IF c.i = Len(c.lote)
                       THEN ciclos (-) um(c)
                       ELSE (ciclos (-) um(c))
                              (+) um([c EXCEPT !.i = c.i + 1, !.salvos = st.salvos,
                                               !.duplicados = st.duplicados])
  /\ evento' = IF d # OK THEN eventoDe(c.empresa, "erro")
                ELSE IF c.i = Len(c.lote) THEN eventoDe(c.empresa, "fim")
                ELSE SemEvento
  /\ resposta' = SemResposta
  /\ UNCHANGED <<ultima, configuracoes, jobsAtivos, tarefas, pedidos, vivo>>

\* SIGINT / SIGTERM: pararTodos() and process.exit(0). The event tells whether
\* pararTodos logged a stopped entity ("parados") or found the Map empty.
sinal ==
  /\ vivo
  /\ LET p == pararTodos(jobsAtivos, tarefas)
     IN /\ jobsAtivos' = p.jobs
        /\ tarefas' = p.tarefas
  /\ vivo' = FALSE
  /\ evento' = eventoDe("", IF DOMAIN jobsAtivos = {} THEN "sinal" ELSE "parados")
  /\ resposta' = SemResposta
  /\ UNCHANGED <<reclamacoes, ultima, configuracoes, ciclos, pedidos>>

\* ------------------------------------------------------------------------
\* Initial state: the tables just created, nothing scheduled
\* ------------------------------------------------------------------------
Init ==
  /\ reclamacoes = <<>>
  /\ ultima = SemChamada
  /\ configuracoes = <<>>
  /\ jobsAtivos = Vazio
  /\ tarefas = EmptyBag
  /\ ciclos = EmptyBag
  /\ pedidos = EmptyBag
  /\ resposta = SemResposta
  /\ evento = SemEvento
  /\ vivo = TRUE

\* ------------------------------------------------------------------------
\* Specifications of the store alone: one caller, calls one after another
\* ------------------------------------------------------------------------
todosOK(lote) == [i \in 1..Len(lote) |-> OK]

NextDB ==
  \E lote \in LotesDB : salvarReclamacoesDB(lote, OK, todosOK(lote))

SpecDB == Init /\ [][NextDB]_vars

NextConsulta ==
  \/ \E lote \in LotesConsulta : salvarReclamacoesDB(lote, OK, todosOK(lote))
  \/ \E e \in Empresas, n \in -1..MaxLimite : buscarReclamacoesDB(e, n)
  \/ \E e \in Empresas, q \in QueryLimites : getReclamacoes(e, q)

SpecConsulta == Init /\ [][NextConsulta]_vars

\* The store with batches whose records differ in their columns: the same
\* identifier may come with two titles, in one batch or in two.
LotesOrdem ==
  SeqsAte({r \in Registros : /\ r.id \in {"a", NULO}
                              /\ r.empresa = "e1"
                              /\ r.coletadoEm = 1}, MaxLote)

NextOrdem ==
  \E lote \in LotesOrdem : salvarReclamacoesDB(lote, OK, todosOK(lote))

SpecOrdem == Init /\ [][NextOrdem]_vars

\* The functions of database.js on the table configuracoes, called one after
\* another: d is the outcome of the connect and the query. antes keeps the
\* rows of the entity as they were before the call.
linhasAntes(tabela, empresa) == SelectSeq(tabela, LAMBDA l : l.empresa = empresa)

chamarSalvarConfiguracao(empresa, intervalo, d) ==
  /\ configuracoes' = IF d = OK THEN upsertConfiguracao(configuracoes, empresa, intervalo)
                       ELSE configuracoes
  /\ ultima' = [SemChamada EXCEPT !.op = "salvarConfiguracao", !.empresa = empresa,
                   !.intervalo = intervalo, !.erro = (d # OK),
                   !.antes = linhasAntes(configuracoes, empresa)]
  /\ UNCHANGED <<reclamacoes, jobsAtivos, tarefas, ciclos, pedidos, resposta, evento, vivo>>

chamarDesativarMonitoramento(empresa, d) ==
  /\ configuracoes' = IF d = OK THEN desativarMonitoramento(configuracoes, empresa)
                       ELSE configuracoes
  /\ ultima' = [SemChamada EXCEPT !.op = "desativarMonitoramento", !.empresa = empresa,
                   !.erro = (d # OK),
                   !.antes = linhasAntes(configuracoes, empresa)]
  /\ UNCHANGED <<reclamacoes, jobsAtivos, tarefas, ciclos, pedidos, resposta, evento, vivo>>

IntervalosConfig == {"1h", "xyz"}

NextConfig ==
  \/ \E e \in Empresas, t \in IntervalosConfig, d \in Desfechos :
       chamarSalvarConfiguracao(e, t, d)
  \/ \E e \in Empresas, d \in Desfechos : chamarDesativarMonitoramento(e, d)

SpecConfig == Init /\ [][NextConfig]_vars

\* The store with failures: pool.connect() or any INSERT of the call may fail
\* with a storage error.
LotesFalhas ==
  SeqsAte({r \in Registros : /\ r.id \in {"a", NULO}
                              /\ r.empresa = "e1"
                              /\ r.titulo = "t1"
                              /\ r.coletadoEm = 1}, MaxLote)

NextFalhas ==
  \E lote \in LotesFalhas, con \in Desfechos :
    \E ds \in [1..Len(lote) -> Desfechos] : salvarReclamacoesDB(lote, con, ds)

SpecFalhas == Init /\ [][NextFalhas]_vars

\* The scraper alone. A page is a run of equal cards followed by a tail of
\* any cards, so that pages shorter and longer than MAX_RECLAMACOES occur; a
\* card has a title or none, an identifier or none.
Cartoes == {cartao(t, i) : t \in {"", "t1"}, i \in {"a", NULO}}

Enchimentos ==
  {[k \in 1..n |-> c] : n \in {0, MaxEnchimento - 1, MaxEnchimento},
                         c \in {cartao("t1", "a"), cartao("", "a")}}

PaginasBusca == {e \o c : e \in Enchimentos, c \in SeqsAte(Cartoes, MaxCauda)}

NextBusca ==
  \/ \E e \in Empresas, pagina \in PaginasBusca :
       buscarReclamacoes(e, [status |-> 200, tipo |-> "resposta"], pagina)
  \/ \E e \in Empresas, up \in {u \in Upstreams : ~sucesso(u)} :
       buscarReclamacoes(e, up, <<>>)

SpecBusca == Init /\ [][NextBusca]_vars

\* ------------------------------------------------------------------------
\* Specification of the server: routes, scheduler and cycles interleaved
\* ------------------------------------------------------------------------
\* Request bodies and pages of the server specification; "" stands for a
\* missing field.
CorposIniciar ==
  {[empresa |-> "e1", intervalo |-> "1h"], [empresa |-> "e1", intervalo |-> "xyz"],
   [empresa |-> "e2", intervalo |-> "1h"], [empresa |-> "", intervalo |-> "1h"],
   [empresa |-> "e1", intervalo |-> ""]}
EmpresasPedido == Empresas \cup {""}
PaginasCiclo == {<<>>, <<cartao("t1", "a")>>}

Next ==
  \/ \E corpo \in CorposIniciar : postIniciar(corpo.empresa, corpo.intervalo)
  \/ \E p \in BagToSet(pedidos), d \in Desfechos : salvarConfiguracao(p, d)
  \/ \E p \in BagToSet(pedidos) : continuarIniciar(p)
  \/ \E e \in EmpresasPedido : postParar(e)
  \/ \E d \in Desfechos : getLista(d)
  \/ \E job \in BagToSet(tarefas) : disparo(job)
  \/ \E c \in BagToSet(ciclos), f \in FalhasDeBusca : buscaFalha(c, f)
  \/ \E c \in BagToSet(ciclos), pagina \in PaginasCiclo, con \in Desfechos :
       buscaRetorna(c, pagina, con)
  \/ \E c \in BagToSet(ciclos), d \in Desfechos : insereCiclo(c, d)
  \/ sinal

Spec == Init /\ [][Next]_vars

\* Overlapping cycles of one entity: a start, the firings of its task and a
\* replacing start launch cycles while earlier ones are still in flight, up to
\* MaxSobrepostos at a time; the pages they scrape share their identifiers.
CorposSobrepostos == {[empresa |-> "e1", intervalo |-> "1h"]}

PaginasSobrepostas ==
  {<<cartao("t1", "a"), cartao("t1", "b")>>,
   <<cartao("t2", "a"), cartao("t2", "b")>>,
   <<cartao("t2", "b"), cartao("t2", "a")>>}

NextCiclos ==
  \/ \E b \in CorposSobrepostos : postIniciar(b.empresa, b.intervalo)
  \/ \E p \in BagToSet(pedidos) : salvarConfiguracao(p, OK)
  \/ \E p \in BagToSet(pedidos) : continuarIniciarAte(p, MaxSobrepostos)
  \/ \E job \in BagToSet(tarefas) : disparoAte(job, MaxSobrepostos)
  \/ \E c \in BagToSet(ciclos), pagina \in PaginasSobrepostas :
       buscaRetorna(c, pagina, OK)
  \/ \E c \in BagToSet(ciclos), d \in Desfechos : insereCiclo(c, d)

SpecCiclos == Init /\ [][NextCiclos]_vars

\* Concurrent starts of one entity: up to MaxConcorrentes requests of
\* POST /api/monitoramento/iniciar wait for their salvarConfiguracao at a time,
\* and each goes on when the event loop runs its continuation.
CorposCorrida ==
  {[empresa |-> "e1", intervalo |-> t] : t \in {"1h", "3h"}}

NextCorrida ==
  \/ \E b \in CorposCorrida : postIniciarAte(b.empresa, b.intervalo, MaxConcorrentes)
  \/ \E p \in BagToSet(pedidos), d \in Desfechos : salvarConfiguracao(p, d)
  \/ \E p \in BagToSet(pedidos) : continuarIniciarAte(p, MaxSobrepostos)
  \/ \E c \in BagToSet(ciclos) : buscaRetorna(c, <<>>, OK)

SpecCorrida == Init /\ [][NextCorrida]_vars

\* A stop while starts of the same entity wait for their salvarConfiguracao.
CorposParada == {[empresa |-> "e1", intervalo |-> "1h"]}

NextParada ==
  \/ \E b \in CorposParada : postIniciarAte(b.empresa, b.intervalo, MaxConcorrentes)
  \/ \E p \in BagToSet(pedidos) : salvarConfiguracao(p, OK)
  \/ \E p \in BagToSet(pedidos) : continuarIniciarAte(p, MaxSobrepostos)
  \/ \E b \in CorposParada : postPararCom(b.empresa, TRUE)
  \/ \E c \in BagToSet(ciclos) : buscaRetorna(c, <<>>, OK)

SpecParada == Init /\ [][NextParada]_vars

\* Starts of one entity whose intervalo passes the check !intervalo: a token
\* of the table, a JSON number, the name of a member of Object.prototype.
CorposIntervalos ==
  {[empresa |-> "e1", intervalo |-> t] : t \in {"1h", NUMERO, "constructor"}}

NextIntervalos ==
  \/ \E b \in CorposIntervalos : postIniciar(b.empresa, b.intervalo)
  \/ \E p \in BagToSet(pedidos), d \in Desfechos : salvarConfiguracao(p, d)
  \/ \E p \in BagToSet(pedidos) : continuarIniciarAte(p, MaxSobrepostos)
  \/ \E c \in BagToSet(ciclos) : buscaRetorna(c, <<>>, OK)

SpecIntervalos == Init /\ [][NextIntervalos]_vars

\* ------------------------------------------------------------------------
\* Properties of the store
\* ------------------------------------------------------------------------
\* C1 (as claimed): when salvarReclamacoesDB is called with the batch of the
\* call just before it, and no query of either call failed, the second call
\* returns salvos = 0 and duplicados = the size of the batch.
C1_SegundaChamadaSoDuplicados ==
  (ultima.op = "salvar" /\ ultima.repetida)
    => (ultima.salvos = 0 /\ ultima.duplicados = Len(ultima.lote))

\* C2: no two stored rows have the same non-null id_externo and the same
\* empresa.
C2_ParUnico ==
  \A i, j \in DOMAIN reclamacoes :
    (/\ i # j
     /\ reclamacoes[i].id_externo # NULO
     /\ reclamacoes[i].id_externo = reclamacoes[j].id_externo)
      => reclamacoes[i].empresa # reclamacoes[j].empresa

\* C2 witness: a batch with an identified record was saved twice in a row, so
\* its key was already stored when the second call inserted it.
C2_ChaveRepetida ==
  /\ ultima.op = "salvar"
  /\ ultima.repetida
  /\ \E k \in DOMAIN ultima.lote :
       /\ ultima.lote[k].id # NULO
       /\ \E i \in DOMAIN reclamacoes :
            /\ reclamacoes[i].id_externo = ultima.lote[k].id
            /\ reclamacoes[i].empresa = ultima.lote[k].empresa

\* The stored rows with a NULL id_externo that carry the fields of record r.
linhasNulasComo(tabela, r) ==
  {i \in DOMAIN tabela :
     /\ tabela[i].id_externo = NULO
     /\ tabela[i].empresa = r.empresa
     /\ tabela[i].titulo = r.titulo
     /\ tabela[i].coletado_em = r.coletadoEm}

ocorrencias(lote, r) == Cardinality({k \in DOMAIN lote : lote[k] = r})

\* C9: every record with a null identifier that a call of salvarReclamacoesDB
\* inserts adds a row of its own: for each such record r of the batch, the
\* number of NULL-id rows with r's fields grows by the number of times r is in
\* the batch, whatever was stored before.
C9_NuloSempreInserido ==
  [][(ultima'.op = "salvar" /\ ultima'.limpa)
       => \A r \in Registros :
            r.id = NULO
              => Cardinality(linhasNulasComo(reclamacoes', r))
                   = Cardinality(linhasNulasComo(reclamacoes, r))
                       + ocorrencias(ultima'.lote, r)]_vars

\* C9 witness: two stored rows with a NULL id_externo, the same empresa and
\* identical fields, the second added by the last call.
C9_DoisNulosIguais ==
  /\ ultima.op = "salvar"
  /\ \E i, j \in DOMAIN reclamacoes :
       /\ i < j
       /\ j = Len(reclamacoes)
       /\ reclamacoes[i].id_externo = NULO
       /\ reclamacoes[j].id_externo = NULO
       /\ reclamacoes[i].empresa = reclamacoes[j].empresa
       /\ reclamacoes[i].titulo = reclamacoes[j].titulo
       /\ reclamacoes[i].coletado_em = reclamacoes[j].coletado_em
       /\ \E k \in DOMAIN ultima.lote :
            ultima.lote[k].id = NULO /\ ultima.lote[k].empresa = reclamacoes[j].empresa

\* The answer of the last buscarReclamacoesDB call, when it returned.
respondeu == ultima.op = "buscar" /\ ~ultima.erro

naResposta(linha) == \E k \in DOMAIN ultima.linhas : ultima.linhas[k] = linha

\* C7: buscarReclamacoesDB(E, N) returns at most N rows, each a stored row of
\* E and none twice, in descending order of coletado_em, and no stored row of
\* E left out is more recent than a returned one; rows are left out only when
\* N rows were returned.
C7_BuscaOrdenadaLimitada ==
  respondeu =>
    /\ Len(ultima.linhas) <= ultima.limite
    /\ \A k \in DOMAIN ultima.linhas :
         /\ ultima.linhas[k].empresa = ultima.empresa
         /\ \E i \in DOMAIN reclamacoes : reclamacoes[i] = ultima.linhas[k]
    /\ \A k, l \in DOMAIN ultima.linhas :
         k < l => /\ ultima.linhas[k] # ultima.linhas[l]
                  /\ ultima.linhas[k].coletado_em >= ultima.linhas[l].coletado_em
    /\ \A i \in DOMAIN reclamacoes :
         (reclamacoes[i].empresa = ultima.empresa /\ ~naResposta(reclamacoes[i]))
           => /\ Len(ultima.linhas) = ultima.limite
              /\ \A k \in DOMAIN ultima.linhas :
                   ultima.linhas[k].coletado_em >= reclamacoes[i].coletado_em

\* C7 witness: a query that returned N >= 1 rows of E, the newest first, while
\* an older row of E and a row of another empresa stayed out of the answer.
C7_BuscaTruncada ==
  /\ respondeu
  /\ ultima.limite >= 1
  /\ Len(ultima.linhas) = ultima.limite
  /\ \E i, j \in DOMAIN reclamacoes :
       /\ reclamacoes[i].empresa = ultima.empresa
       /\ ~naResposta(reclamacoes[i])
       /\ reclamacoes[i].coletado_em < ultima.linhas[1].coletado_em
       /\ reclamacoes[j].empresa # ultima.empresa

\* ------------------------------------------------------------------------
\* Properties of the scheduler and of the routes
\* ------------------------------------------------------------------------
tarefasDe(tf, empresa) == {j \in BagToSet(tf) : j.empresa = empresa}

linhasDe(tabela, empresa) == {tabela[i] : i \in {k \in DOMAIN tabela : tabela[k].empresa = empresa}}

\* The step takes request p out of the state it was waiting in.
consumido(p) == CopiesIn(p, pedidos') < CopiesIn(p, pedidos)

reconhecido(t) == ehString(t) /\ toLowerCase(t) \in DOMAIN conversoes

\* C3: once a stop of E has returned, E is out of the registry and no task of
\* E is armed; a cron firing launches a cycle of E only while the registry
\* holds E with its task armed; and a row enters the table reclamacoes only
\* through a cycle that was already in flight.
C3_ParadoNaoDispara ==
  [][ /\ (resposta'.rota = "parar" /\ resposta'.status = 200) =>
           /\ resposta'.empresa \notin DOMAIN jobsAtivos'
           /\ tarefasDe(tarefas', resposta'.empresa) = {}
      /\ evento'.tipo = "cron" =>
           /\ evento'.empresa \in DOMAIN jobsAtivos
           /\ BagIn(jobsAtivos[evento'.empresa].job, tarefas)
      /\ reclamacoes' # reclamacoes =>
           \E c \in BagToSet(ciclos) :
             /\ c.pc = "salvando"
             /\ reclamacoes' = Append(reclamacoes, Linha(reclamacoes, c.lote[c.i]))
    ]_vars

\* A stop that found the job of its entity has returned while a cycle of that
\* entity is still in flight.
C3_ParadoComCicloEmVoo ==
  /\ resposta.rota = "parar"
  /\ resposta.status = 200
  /\ resposta.parou
  /\ \E c \in BagToSet(ciclos) : c.empresa = resposta.empresa

\* C4: a start of E with an unrecognized token does what the same start with
\* "1h" would do: the row it writes to configuracoes, and the registry, the
\* armed tasks and the cycles it leaves, are those of a start with "1h".
C4_TokenDesconhecidoComo1h ==
  [][\A p \in BagToSet(pedidos) :
       (consumido(p) /\ ~reconhecido(p.intervalo)) =>
         IF p.pc = "salvando"
           THEN configuracoes' \in
                  {configuracoes, upsertConfiguracao(configuracoes, p.empresa, "1h")}
           ELSE LET r == iniciarMonitoramento(jobsAtivos, tarefas, ciclos,
                                              p.empresa, "1h")
                IN /\ jobsAtivos' = r.jobs
                   /\ tarefas' = r.tarefas
                   /\ ciclos' = r.ciclos
    ]_vars

\* C5: in every state each armed task is armed once and is the job the
\* registry holds for its entity, and every job of the registry is armed; so
\* an entity has at most one armed task and none outside the registry.
C5_UmaTarefaPorEmpresa ==
  /\ \A j \in BagToSet(tarefas) :
       /\ CopiesIn(j, tarefas) = 1
       /\ j.empresa \in DOMAIN jobsAtivos
       /\ jobsAtivos[j.empresa].job = j
  /\ \A e \in DOMAIN jobsAtivos : BagIn(jobsAtivos[e].job, tarefas)
  /\ \A e \in Empresas : Cardinality(tarefasDe(tarefas, e)) <= 1

\* A start has just replaced the job of an entity that was running.
C5_InicioSubstituiu ==
  /\ resposta.rota = "iniciar"
  /\ resposta.status = 200
  /\ resposta.parou
  /\ Cardinality(tarefasDe(tarefas, resposta.empresa)) = 1

\* C6: when salvarConfiguracao settles for a start of E, either the row
\* (E, token, ativo) is in configuracoes and nothing is installed yet, or the
\* request is answered 500 with the error of the store and configuracoes, the
\* registry, the armed tasks and the cycles are left as they were; and the
\* step that installs the job belongs to a request whose row was written.
C6_LinhaAntesDoJob ==
  [][\A p \in BagToSet(pedidos) :
       consumido(p) =>
         IF p.pc = "salvando"
           THEN \/ /\ pedidos' = (pedidos (-) um(p))
                                   (+) um([p EXCEPT !.pc = "salvo", !.gravou = TRUE])
                   /\ linhasDe(configuracoes', p.empresa) =
                        {[empresa |-> p.empresa, intervalo |-> paraTexto(p.intervalo),
                          ativo |-> TRUE]}
                   /\ UNCHANGED <<jobsAtivos, tarefas, ciclos>>
                \/ /\ pedidos' = pedidos (-) um(p)
                   /\ resposta'.rota = "iniciar"
                   /\ resposta'.status = 500
                   /\ resposta'.empresa = p.empresa
                   /\ resposta'.detalhes = ERRO
                   /\ evento' = SemEvento
                   /\ UNCHANGED <<configuracoes, jobsAtivos, tarefas, ciclos>>
           ELSE /\ p.gravou
                /\ \E l \in linhasDe(configuracoes, p.empresa) : l.ativo
    ]_vars

\* A start has just failed at the write of its row: the entity has no row, no
\* job and no cycle.
C6_EscritaFalhou ==
  /\ resposta.rota = "iniciar"
  /\ resposta.status = 500
  /\ resposta.detalhes = ERRO
  /\ linhasDe(configuracoes, resposta.empresa) = {}
  /\ resposta.empresa \notin DOMAIN jobsAtivos
  /\ \A c \in BagToSet(ciclos) : c.empresa # resposta.empresa

\* After a failure logged in a cycle of an entity of the registry: the process
\* runs, the job of the entity is armed and its callback can fire.
C8_AposFalha ==
  (evento.tipo = "erro" /\ evento.empresa \in DOMAIN jobsAtivos) =>
    /\ vivo
    /\ BagIn(jobsAtivos[evento.empresa].job, tarefas)
    /\ BagCardinality(ciclos) < MaxCiclos => ENABLED disparo(jobsAtivos[evento.empresa].job)

\* The step that logs the failure of a cycle leaves the registry and the tasks.
C8_FalhaNaoMexe ==
  evento'.tipo = "erro" => (vivo' /\ UNCHANGED <<jobsAtivos, tarefas>>)

\* C8: the step in which a cycle of E fails, at the fetch or at the store,
\* leaves the registry and the armed tasks as they were and the process
\* running; after it the job of E is still armed and its firing still
\* launches a cycle.
C8_FalhaDoCicloNaoPara == [][C8_FalhaNaoMexe]_vars /\ []C8_AposFalha

\* A cycle of an entity of the registry has just failed and the task of the
\* entity is armed.
C8_FalhouEContinuaArmado ==
  /\ evento.tipo = "erro"
  /\ evento.empresa \in DOMAIN jobsAtivos
  /\ BagIn(jobsAtivos[evento.empresa].job, tarefas)
  /\ vivo

\* C10: the list GET /api/monitoramento/lista answers with holds the rows of
\* configuracoes with ativo = true, each once, and nothing else, whatever the
\* registry holds.
C10_ListaVemDaTabela ==
  (resposta.rota = "lista" /\ resposta.status = 200) =>
    LET ativos == {configuracoes[i] : i \in {k \in DOMAIN configuracoes :
                                               configuracoes[k].ativo}}
    IN /\ {resposta.corpo[k] : k \in DOMAIN resposta.corpo} = ativos
       /\ Len(resposta.corpo) = Cardinality(ativos)

\* The list names an entity the registry does not hold, no start pending.
C10_ListaComParado ==
  /\ resposta.rota = "lista"
  /\ resposta.status = 200
  /\ pedidos = EmptyBag
  /\ \E k \in DOMAIN resposta.corpo : resposta.corpo[k].empresa \notin DOMAIN jobsAtivos

\* C11: the step in which POST /api/monitoramento/parar answers leaves the
\* table configuracoes as it was, so a stop that found the job of E leaves
\* the row of E with its intervalo and ativo = true and no job of E.
C11_PararNaoTocaTabela ==
  [][resposta'.rota = "parar" =>
       /\ configuracoes' = configuracoes
       /\ (resposta'.status = 200 /\ resposta'.parou) =>
            /\ resposta'.empresa \notin DOMAIN jobsAtivos'
            /\ \E l \in linhasDe(configuracoes', resposta'.empresa) :
                 /\ l.ativo
                 /\ l \in linhasDe(configuracoes, resposta'.empresa)
    ]_vars

\* A stop has just found and stopped the job of an entity whose row says ativo.
C11_ParadoEAtivoNaTabela ==
  /\ resposta.rota = "parar"
  /\ resposta.status = 200
  /\ resposta.parou
  /\ resposta.empresa \notin DOMAIN jobsAtivos
  /\ \E l \in linhasDe(configuracoes, resposta.empresa) : l.ativo

\* C12: pararMonitoramento returns true exactly when the registry held a job
\* of E before the call, the registry holds none afterwards, and the route
\* answers 200 for every non-empty entity, job found or not.
C12_PararDevolveSeAchou ==
  [][resposta'.rota = "parar" =>
       IF resposta'.empresa = ""
         THEN resposta'.status = 400 /\ UNCHANGED <<jobsAtivos, tarefas>>
         ELSE /\ resposta'.status = 200
              /\ resposta'.parou = (resposta'.empresa \in DOMAIN jobsAtivos)
              /\ resposta'.empresa \notin DOMAIN jobsAtivos'
              /\ ~resposta'.parou => UNCHANGED <<jobsAtivos, tarefas>>
    ]_vars

\* A stop of an entity that was started and already stopped: it answers 200
\* and pararMonitoramento returned false.
C12_SegundoPararSemEfeito ==
  /\ resposta.rota = "parar"
  /\ resposta.status = 200
  /\ ~resposta.parou
  /\ pedidos = EmptyBag
  /\ linhasDe(configuracoes, resposta.empresa) # {}

\* C13: POST /api/monitoramento/iniciar with empresa or intervalo missing or
\* empty answers 400 and changes no table, no registry entry, no task, no
\* cycle and no request in flight; no request in flight has an empty field.
C13_CamposObrigatorios ==
  [][ /\ (resposta'.rota = "iniciar" /\ (resposta'.empresa = "" \/ resposta'.intervalo = "")) =>
           /\ resposta'.status = 400
           /\ evento' = SemEvento
           /\ UNCHANGED <<reclamacoes, configuracoes, jobsAtivos, tarefas, ciclos, pedidos>>
      /\ \A p \in BagToSet(pedidos') : p.empresa # "" /\ p.intervalo # ""
    ]_vars

\* A start without its interval has just been refused while a job runs.
C13_RecusadoSemIntervalo ==
  /\ resposta.rota = "iniciar"
  /\ resposta.status = 400
  /\ resposta.intervalo = ""
  /\ resposta.empresa \in DOMAIN jobsAtivos

\* C14: the step of the signal handler leaves the registry empty and no task
\* armed when the process exits, and leaves the cycles in flight as they are;
\* after the exit nothing is armed.
C14_SinalParaTudo ==
  [][(vivo /\ ~vivo') =>
       /\ jobsAtivos' = Vazio
       /\ tarefas' = EmptyBag
       /\ ciclos' = ciclos
    ]_vars

\* The process has exited on a signal that found jobs in the registry, with a
\* cycle still in flight.
C14_SaiuComCicloEmVoo ==
  /\ ~vivo
  /\ evento.tipo = "parados"
  /\ ciclos # EmptyBag
  /\ tarefas = EmptyBag

\* C15 (as claimed): a call of salvarReclamacoesDB in which an INSERT fails
\* with a storage error that is not a key conflict ends by throwing to its
\* caller.
C15_ErroDeInsercaoAborta ==
  (ultima.op = "salvar" /\ ~ultima.limpa) => ultima.erro

\* ------------------------------------------------------------------------
\* Properties of the scraper
\* ------------------------------------------------------------------------
\* The failure kind of an error buscarReclamacoes throws.
tipoDeFalha(erro) ==
  CASE erro.mensagem = NAO_ENCONTRADA -> "NotFound"
    [] erro.mensagem = BLOQUEADO -> "Blocked"
    [] erro.mensagem = SEM_RESPOSTA -> "Network"
    [] erro.mensagem = ORIGINAL -> "Unknown"
    [] OTHER -> "none"

\* C16: a fetch fails with the kind its upstream outcome determines: status
\* 404 NotFound, status 403 Blocked, no response Network, anything else
\* Unknown with the upstream status when there is one; a 2xx response gives
\* no failure, whatever the number of cards.
C16_FalhaPeloDesfecho ==
  ultima.op = "fetch" =>
    LET up == ultima.upstream
        tipo == tipoDeFalha(ultima.falha)
    IN IF up.tipo = "resposta" /\ up.status = 200
         THEN ~ultima.erro /\ tipo = "none"
         ELSE /\ ultima.erro
              /\ ultima.lote = <<>>
              /\ tipo = (IF up.tipo = "resposta" /\ up.status = 404 THEN "NotFound"
                          ELSE IF up.tipo = "resposta" /\ up.status = 403 THEN "Blocked"
                          ELSE IF up.tipo = "semResposta" THEN "Network"
                          ELSE "Unknown")
              /\ (tipo = "Unknown" /\ up.tipo = "resposta") =>
                   ultima.falha.status = up.status

\* A fetch has just been refused with status 403.
C16_Bloqueado ==
  /\ ultima.op = "fetch"
  /\ ultima.upstream = [status |-> 403, tipo |-> "resposta"]
  /\ tipoDeFalha(ultima.falha) = "Blocked"

\* The positions of the cards of a page that buscarReclamacoes must keep:
\* among the first MAX_RECLAMACOES, those with a title.
mantidos(pagina) ==
  {i \in DOMAIN pagina : i <= MAX_RECLAMACOES /\ pagina[i].titulo # ""}

\* The k-th position of a set of positions, in increasing order.
posicao(S, k) == CHOOSE i \in S : Cardinality({j \in S : j <= i}) = k

\* C17: the records of a successful fetch are, in the order of the page, the
\* cards with a non-empty title among its first 20 cards: none has an empty
\* title, whatever the identifier of the card, and none of those is missing.
C17_SemTituloVazio ==
  (ultima.op = "fetch" /\ ~ultima.erro) =>
    LET S == mantidos(ultima.pagina)
    IN /\ \A k \in DOMAIN ultima.lote : ultima.lote[k].titulo # ""
       /\ Len(ultima.lote) = Cardinality(S)
       /\ \A k \in DOMAIN ultima.lote :
            /\ ultima.lote[k].titulo = ultima.pagina[posicao(S, k)].titulo
            /\ ultima.lote[k].id = ultima.pagina[posicao(S, k)].id
            /\ ultima.lote[k].empresa = ultima.empresa

\* A fetch of a page of more than 20 cards whose 20th card has an identifier
\* and no title, and which returned records.
C17_CartaoSemTituloDescartado ==
  /\ ultima.op = "fetch"
  /\ ~ultima.erro
  /\ Len(ultima.pagina) > MAX_RECLAMACOES
  /\ ultima.pagina[MAX_RECLAMACOES].titulo = ""
  /\ ultima.pagina[MAX_RECLAMACOES].id # NULO
  /\ ultima.lote # <<>>

\* ------------------------------------------------------------------------
\* Properties of the scheduler, continued
\* ------------------------------------------------------------------------
\* C18: the step in which a start of E answers 200 launches one cycle of E,
\* which is in flight when the answer is sent, and leaves the job of E in the
\* registry with its task armed; and the step in which a cycle ends, by
\* failure or not, leaves the registry and the armed tasks as they were.
C18_InicioLancaUmCiclo ==
  [][ /\ (resposta'.rota = "iniciar" /\ resposta'.status = 200) =>
           /\ evento' = eventoDe(resposta'.empresa, "imediato")
           /\ ciclos' = ciclos (+) um(novoCiclo(resposta'.empresa))
           /\ resposta'.empresa \in DOMAIN jobsAtivos'
           /\ BagIn(jobsAtivos'[resposta'.empresa].job, tarefas')
      /\ evento'.tipo \in {"erro", "fim"} => UNCHANGED <<jobsAtivos, tarefas>>
    ]_vars

\* A start of an entity that was running has just answered 200 with its
\* immediate cycle in flight.
C18_ReinicioComCicloEmVoo ==
  /\ resposta.rota = "iniciar"
  /\ resposta.status = 200
  /\ resposta.parou
  /\ evento = eventoDe(resposta.empresa, "imediato")
  /\ BagIn(novoCiclo(resposta.empresa), ciclos)

\* ------------------------------------------------------------------------
\* Properties of the store, continued
\* ------------------------------------------------------------------------
\* A row without its SERIAL id.
semId(l) ==
  [coletado_em |-> l.coletado_em, empresa |-> l.empresa,
   id_externo |-> l.id_externo, titulo |-> l.titulo]

\* What a table stores, the SERIAL ids and the order of the rows left out:
\* the bag of its rows.
conteudo(tabela) ==
  LET S == {semId(tabela[i]) : i \in DOMAIN tabela}
  IN [l \in S |-> Cardinality({i \in DOMAIN tabela : semId(tabela[i]) = l})]

\* The orderings of a batch.
permutacoes(lote) ==
  {[i \in DOMAIN lote |-> lote[f[i]]] :
     f \in {g \in [DOMAIN lote -> DOMAIN lote] :
              \A i, j \in DOMAIN lote : i # j => g[i] # g[j]}}

\* The table an error-free salvarReclamacoesDB(lote) leaves.
resultado(tabela, lote) ==
  lacoSalvar([tabela |-> tabela, salvos |-> 0, duplicados |-> 0],
             lote, todosOK(lote), 1).tabela

\* C19 (as claimed): after an error-free salvarReclamacoesDB(B) the table
\* stores what it would store had the records of B come in any other order.
C19_OrdemNaoImporta ==
  [][(ultima'.op = "salvar" /\ ultima'.limpa) =>
       \A q \in permutacoes(ultima'.lote) :
         conteudo(resultado(reclamacoes, q)) = conteudo(reclamacoes')
    ]_vars

\* No two records of the batch have the same non-null identifier and empresa
\* and differ in another field.
semChaveDisputada(lote) ==
  \A i, j \in DOMAIN lote :
    (lote[i].id # NULO /\ lote[i].id = lote[j].id /\ lote[i].empresa = lote[j].empresa)
      => lote[i] = lote[j]

\* C19 (amended): when the records of B that share a non-null key are equal,
\* the table after an error-free salvarReclamacoesDB(B) stores what it would
\* store had the records of B come in any other order (SERIAL ids and row
\* order left out).
C19_OrdemNaoImportaSemDisputa ==
  [][(ultima'.op = "salvar" /\ ultima'.limpa /\ semChaveDisputada(ultima'.lote)) =>
       \A q \in permutacoes(ultima'.lote) :
         conteudo(resultado(reclamacoes, q)) = conteudo(reclamacoes')
    ]_vars

\* A batch of two different records without disputed key has been saved and
\* both are rows.
C19_DoisRegistrosDistintos ==
  /\ ultima.op = "salvar"
  /\ ultima.limpa
  /\ Len(ultima.lote) = 2
  /\ ultima.lote[1] # ultima.lote[2]
  /\ semChaveDisputada(ultima.lote)
  /\ \A k \in {1, 2} : \E i \in DOMAIN reclamacoes :
       semId(reclamacoes[i]) = semId(Linha(<<>>, ultima.lote[k]))

\* C20: a call of salvarReclamacoesDB leaves every row that was stored as it
\* was, the rows whose key comes again in the batch included.
C20_NuncaSobrescreve ==
  [][ultima'.op = "salvar" =>
       /\ Len(reclamacoes') >= Len(reclamacoes)
       /\ \A i \in DOMAIN reclamacoes : reclamacoes'[i] = reclamacoes[i]
    ]_vars

\* A record has been saved whose key was stored with another title, and the
\* row has the title it had.
C20_ChaveComOutroTitulo ==
  /\ ultima.op = "salvar"
  /\ ultima.limpa
  /\ Len(ultima.lote) = 1
  /\ \E i \in DOMAIN reclamacoes :
       /\ reclamacoes[i].id_externo = ultima.lote[1].id
       /\ reclamacoes[i].id_externo # NULO
       /\ reclamacoes[i].empresa = ultima.lote[1].empresa
       /\ reclamacoes[i].titulo # ultima.lote[1].titulo

\* ------------------------------------------------------------------------
\* Properties of the table configuracoes
\* ------------------------------------------------------------------------
C21_UmaLinhaPorEmpresa ==
  \A i, j \in DOMAIN configuracoes :
    configuracoes[i].empresa = configuracoes[j].empresa => i = j

C21_RegistroSobrescreve ==
  (ultima'.op = "salvarConfiguracao" /\ ~ultima'.erro) =>
    LET e == ultima'.empresa
        nova == [empresa |-> e, intervalo |-> paraTexto(ultima'.intervalo),
                 ativo |-> TRUE]
    IN IF \E i \in DOMAIN configuracoes : configuracoes[i].empresa = e
         THEN /\ Len(configuracoes') = Len(configuracoes)
              /\ \A i \in DOMAIN configuracoes :
                   configuracoes'[i] = IF configuracoes[i].empresa = e THEN nova
                                       ELSE configuracoes[i]
         ELSE configuracoes' = Append(configuracoes, nova)

\* C21: the table configuracoes never holds two rows of one entity, and
\* salvarConfiguracao for an entity that has a row puts the new token and
\* ativo = true in that row, adds no row and leaves the other rows as they
\* were (for an entity without row it adds the row).
C21_LinhaUnicaESobrescrita ==
  []C21_UmaLinhaPorEmpresa /\ [][C21_RegistroSobrescreve]_vars

\* salvarConfiguracao has just been called for an entity whose row was
\* inactive with another token, while another entity has a row.
C21_ReativadaComOutroToken ==
  /\ ultima.op = "salvarConfiguracao"
  /\ ~ultima.erro
  /\ Len(ultima.antes) = 1
  /\ ~ultima.antes[1].ativo
  /\ ultima.antes[1].intervalo # ultima.intervalo
  /\ Len(configuracoes) = 2

\* ------------------------------------------------------------------------
\* Overlapping cycles
\* ------------------------------------------------------------------------
linhasComChave(tabela, id, empresa) ==
  {i \in DOMAIN tabela : tabela[i].id_externo = id /\ tabela[i].empresa = empresa}

\* The records of cycle c whose INSERT has run, when none of them failed.
inseridos(c) ==
  IF c.pc = "salvando" /\ c.salvos = c.i - 1
    THEN {c.lote[k] : k \in 1..(c.i - 1)}
    ELSE {}

\* C22: whatever the interleaving of the inserts of the cycles in flight, the
\* table holds at most one row per non-null (id_externo, empresa) and exactly
\* one for every record a cycle has inserted.
C22_CiclosConvergem ==
  /\ \A id \in IdsExternos, e \in Empresas :
       Cardinality(linhasComChave(reclamacoes, id, e)) <= 1
  /\ \A c \in BagToSet(ciclos) : \A r \in inseridos(c) :
       r.id # NULO => Cardinality(linhasComChave(reclamacoes, r.id, r.empresa)) = 1

\* Two cycles of one entity in flight, both past the insert of the same key,
\* which they scraped with different titles.
C22_DoisCiclosInseriramAChave ==
  \E c1, c2 \in BagToSet(ciclos) :
    \E r1 \in inseridos(c1), r2 \in inseridos(c2) :
      /\ r1.id = r2.id
      /\ r1.id # NULO
      /\ r1.empresa = r2.empresa
      /\ r1.titulo # r2.titulo

\* ------------------------------------------------------------------------
\* Concurrent requests
\* ------------------------------------------------------------------------
pedidosDe(empresa) == {p \in BagToSet(pedidos) : p.empresa = empresa}

\* C23: when no start of E is waiting any more, the intervalo of the row of E
\* in configuracoes is the intervalo of the entry of E in jobsAtivos.
C23_TabelaIgualAoRegistro ==
  \A e \in DOMAIN jobsAtivos :
    pedidosDe(e) = {} =>
      \A l \in linhasDe(configuracoes, e) :
        l.intervalo = paraTexto(jobsAtivos[e].intervalo)

\* C24: a stop of E was answered, E is out of the registry and every start of
\* E still waiting was received before that answer (it is marked); then the
\* step that resumes one of them leaves E out of the registry.
C24_ParadoNaoVolta ==
  [][\A p \in BagToSet(pedidos) :
       ( /\ p.parado
         /\ p.pc = "salvo"
         /\ consumido(p)
         /\ p.empresa \notin DOMAIN jobsAtivos
         /\ \A q \in pedidosDe(p.empresa) : q.parado )
       => p.empresa \notin DOMAIN jobsAtivos']_vars

\* C25: a step that answers POST /api/monitoramento/iniciar with 500 leaves
\* the Map jobsAtivos and the armed tasks as they were.
C25_ErroDeixaORegistro ==
  [][(resposta'.rota = "iniciar" /\ resposta'.status = 500)
       => UNCHANGED <<jobsAtivos, tarefas>>]_vars

\* ------------------------------------------------------------------------
\* Registry and table configuracoes
\* ------------------------------------------------------------------------
temLinhaAtiva(tabela, empresa) == \E l \in linhasDe(tabela, empresa) : l.ativo

\* C26: every entity with an entry in jobsAtivos has a row in configuracoes
\* with ativo = true.
C26_JobTemLinhaAtiva ==
  \A e \in DOMAIN jobsAtivos : temLinhaAtiva(configuracoes, e)

\* The converse fails: with no request waiting, one entity has a job and
\* another has an active row and no job.
C26_LinhaAtivaSemJob ==
  /\ pedidos = EmptyBag
  /\ \E e \in DOMAIN jobsAtivos : temLinhaAtiva(configuracoes, e)
  /\ \E e \in Empresas :
       /\ e \notin DOMAIN jobsAtivos
       /\ tarefasDe(tarefas, e) = {}
       /\ temLinhaAtiva(configuracoes, e)

====
